---- MODULE Spec2Model ----
(***************************************************************************)
(* Undrained pipe-soil interaction (DNV-RP-F114): the surface-laid model   *)
(* in its two implementations (run_psi_analysis, PSI_Undrained_Model) and  *)
(* the trenched model (Trenched_PSI_Backend).                              *)
(*                                                                         *)
(* Numbers.  The program computes in IEEE doubles.  The model computes in  *)
(* decimal fixed point: a real x is the integer x * Scale, and every       *)
(* multiplication, division and library call rounds its result to the      *)
(* nearest representable value, in the order of operations of the code.    *)
(* Two expressions that are equal over the reals but are evaluated in a    *)
(* different order can therefore differ in the last digit, as they do in   *)
(* the program.                                                            *)
(***************************************************************************)
EXTENDS Integers, Sequences, FiniteSets, TLC

\* ------------------------------------------------------------ arithmetic

\* One unit in the last place is 1 / Scale.
Scale == 10^4

\* The literal n/d, e.g. Dec(125, 100) is 1.25.
Dec(n, d) == (n * Scale) \div d

Abs(a) == IF a < 0 THEN -a ELSE a

\* Python's min(a, b) and max(a, b): the first argument wins a tie.
Min(a, b) == IF b < a THEN b ELSE a

Max(a, b) == IF b > a THEN b ELSE a

\* a * b, rounded to the nearest unit (the operands are split so that no
\* intermediate product leaves the 32-bit range).
Mul(a, b) ==
    LET ah == a \div Scale
        al == a % Scale
        bh == b \div Scale
        bl == b % Scale
    IN  ah * bh * Scale + ah * bl + al * bh + (al * bl + Scale \div 2) \div Scale

\* a / b for b > 0, rounded to the nearest unit, by long division.
DivPos(a, b) ==
    LET q0 == a \div b
        r0 == a % b
        q1 == (r0 * 100) \div b
        r1 == (r0 * 100) % b
        q2 == (r1 * 100 + b \div 2) \div b
    IN  q0 * Scale + q1 * 100 + q2

\* a / b, b # 0.
Div(a, b) == IF b < 0 THEN DivPos(-a, -b) ELSE DivPos(a, b)

\* n / d for whole numbers, rounded to the nearest whole number (d > 0).
RoundDiv(n, d) == (n + d \div 2) \div d

\* The whole number nearest to the square root of n, between lo and hi.
RECURSIVE ISqrt(_, _, _)
ISqrt(n, lo, hi) ==
    IF hi - lo <= 1
    THEN IF n - lo * lo <= hi * hi - n THEN lo ELSE hi
    ELSE LET mid == (lo + hi) \div 2
         IN  IF mid * mid <= n THEN ISqrt(n, mid, hi) ELSE ISqrt(n, lo, mid)

\* math.sqrt / np.sqrt of a >= 0.
Sqrt(a) == IF a <= 0 THEN 0 ELSE ISqrt(a * Scale, 0, 46340)

\* base ** n for a whole number n >= 0.
RECURSIVE PowNat(_, _)
PowNat(base, n) == IF n = 0 THEN Scale ELSE Mul(base, PowNat(base, n - 1))

\* base ** e of the code, for the exponents the inputs take (whole numbers).
Pow(base, e) == PowNat(base, e \div Scale)

\* x ** 0.25.
PowQuarter(x) == Sqrt(Sqrt(x))

\* x ** 0.5.
PowHalf(x) == Sqrt(x)

Pow5(r) == Mul(Mul(Mul(r, r), Mul(r, r)), r)

\* The largest r in lo..hi-1 with r^5 <= x (lo^5 <= x < hi^5).
RECURSIVE Root5(_, _, _)
Root5(x, lo, hi) ==
    IF hi - lo <= 1 THEN lo
    ELSE LET mid == (lo + hi) \div 2
         IN  IF Pow5(mid) <= x THEN Root5(x, mid, hi) ELSE Root5(x, lo, mid)

\* x ** 0.8 for 0 <= x < 32: the fourth power of the fifth root.
Pow08(x) ==
    LET r == Root5(x, 0, 2 * Scale)
    IN  IF x <= 0 THEN 0 ELSE Mul(Mul(r, r), Mul(r, r))

\* math.pi / np.pi and its half, to the last place.
Pi == Dec(31416, 10000)

HalfPi == Dec(15708, 10000)

\* The alternating series term - term*x2/(k(k+1)) + ..., summed until the
\* terms vanish: the sine series from (x, 2), the cosine series from (1, 1).
RECURSIVE Series(_, _, _, _)
Series(x2, term, k, acc) ==
    IF term = 0 THEN acc
    ELSE Series(x2, -RoundDiv(Mul(term, x2), k * (k + 1)), k + 2, acc + term)

\* sin and cos on [0, pi/2].
SinR(x) == Series(Mul(x, x), x, 2, 0)

CosR(x) == Series(Mul(x, x), Scale, 1, 0)

\* math.sin / np.sin and math.cos / np.cos on [0, pi].
Sin(x) == IF x <= HalfPi THEN SinR(x) ELSE SinR(Pi - x)

Cos(x) == IF x <= HalfPi THEN CosR(x) ELSE -CosR(Pi - x)

\* The smallest b in lo+1..hi with cos(b) <= c.
RECURSIVE AcosSearch(_, _, _)
AcosSearch(c, lo, hi) ==
    IF hi - lo <= 1 THEN hi
    ELSE LET mid == (lo + hi) \div 2
         IN  IF CosR(mid) <= c THEN AcosSearch(c, lo, mid) ELSE AcosSearch(c, mid, hi)

\* math.acos / np.arccos on [-1, 1]: acos(1) = 0, acos(-1) = pi.
Acos(c) == IF c >= 0 THEN AcosSearch(c, -1, HalfPi) ELSE Pi - AcosSearch(-c, -1, HalfPi)

\* math.asin / np.arcsin on [-1, 1].
Asin(x) == HalfPi - Acos(x)

\* Python's round(x, 2): to the nearest hundredth, a tie to the even one.
Round2(x) ==
    LET q == x \div 100
        r == x % 100
    IN  IF r > 50 \/ (r = 50 /\ q % 2 = 1) THEN (q + 1) * 100 ELSE q * 100

\* ---------------------------------------------- surface-laid: the inputs

surfaces == <<"Concrete", "PET">>

estimates == <<"P5", "P50", "P95">>

\* The key of a cell's coefficient in the inputs: f"{surf_name}_{est}_SSR" and
\* f"{surf_name}_{est}_Prem" are the cell <<surf_name, est>> of SSR and Prem.
Cells == {<<surfaces[s], estimates[e]>> : s \in 1..2, e \in 1..3}

\* ------------------------------------- surface-laid: run_psi_analysis

Sub_wt(inputs) == inputs.gamma_bulk - Dec(1005, 100)

Dip(Dop, tp) == Dop - 2 * tp

g == Dec(98, 10)

Klay == Dec(2, 1)

Wp(Dop, tp) ==
    Div(Mul(Mul(Pi, Mul(Dop, Dop) - Mul(Dip(Dop, tp), Dip(Dop, tp))), Dec(7850, 1)), Dec(4, 1))

Wcon(Dop, tp) == Div(Mul(Mul(Pi, Mul(Dip(Dop, tp), Dip(Dop, tp))), Dec(1000, 1)), Dec(4, 1))

Wb(Dop) == Div(Mul(Mul(Pi, Mul(Dop, Dop)), Dec(1025, 1)), Dec(4, 1))

\* The flooded weight with the buoyancy Wb left out.
Wpf_nobuoyancy(Dop, tp) == Div(Mul(Wp(Dop, tp) + Wcon(Dop, tp), g), Dec(1000, 1))

Wpf(Dop, tp) == Div(Mul(Wp(Dop, tp) + Wcon(Dop, tp) - Wb(Dop), g), Dec(1000, 1))

Wpins(Dop, tp) ==
    Div(Mul(Mul(Pi, Mul(Dop, Dop) - Mul(Dip(Dop, tp), Dip(Dop, tp))), Dec(7850 - 1025, 1)),
        Dec(4, 1))

\* The installation term Wpins * Klay * g / 1000.0.
InstallationTerm(Dop, tp) == Div(Mul(Mul(Wpins(Dop, tp), Klay), g), Dec(1000, 1))

\* V with the smaller of the two terms taken.
EffectiveForce_min(Dop, tp) == Min(InstallationTerm(Dop, tp), Wpf(Dop, tp))

\* Effective vertical force V.
EffectiveForce(Dop, tp) == Max(InstallationTerm(Dop, tp), Wpf(Dop, tp))

\* The radicand Dop * Z - Z**2 of the contact width.
Radicand(Dop, Z) == Mul(Dop, Z) - Mul(Z, Z)

\* Contact width B: guarded, 0 when the radicand is not positive.
ContactWidth(Dop, Z) ==
    IF Z < Div(Dop, Dec(2, 1))
    THEN IF Radicand(Dop, Z) > 0 THEN 2 * Sqrt(Radicand(Dop, Z)) ELSE 0
    ELSE Dop

\* Penetrated area Abm.
PenetratedArea(Dop, Z) ==
    LET B == ContactWidth(Dop, Z)
        asin_val == IF Abs(Div(B, Dop)) <= Scale THEN Asin(Div(B, Dop)) ELSE 0
    IN  IF Z < Div(Dop, Dec(2, 1))
        THEN IF Dop > 0
             THEN Mul(asin_val, Div(Mul(Dop, Dop), Dec(4, 1)))
                  - Mul(Mul(B, Div(Dop, Dec(4, 1))), Cos(asin_val))
             ELSE 0
        ELSE Div(Mul(Pi, Mul(Dop, Dop)), Dec(8, 1)) + Mul(Dop, Z - Div(Dop, Dec(2, 1)))

\* Vertical bearing capacity Qv, for Z >= 0 (a negative Z raises, see below).
BearingCapacity(inputs, Abm) ==
    LET Dop == inputs.Dop
        Z == inputs.Z
        term1 == Mul(Dec(6, 1), PowQuarter(Div(Z, Dop)))
        term2 == Mul(Dec(34, 10), PowHalf(Div(10 * Z, Dop)))
        buoy == Div(Mul(Mul(Dec(15, 10), Sub_wt(inputs)), Abm), Mul(Dop, inputs.Su))
    IN  IF Dop > 0
        THEN Mul(Mul(Min(term1, term2) + buoy, Dop), inputs.Su)
        ELSE 0

\* The argument taken over the diameter instead of the radius.
CosVal_diameter(Dop, Z) == Max(-Scale, Min(Scale, Scale - Div(Z, Dop)))

\* The clamped argument of the inverse cosine.
CosVal(Dop, Z) == Max(-Scale, Min(Scale, Scale - Div(Z, Div(Dop, Dec(2, 1)))))

\* zeta with the sine of the numerator dropped.
WedgingFactor_nosine(Dop, Z) ==
    LET beta == Acos(CosVal(Dop, Z))
        denom == beta + Mul(Sin(beta), Cos(beta))
    IN  IF denom # 0 THEN Div(2 * beta, denom) ELSE Scale

\* Wedging factor zeta: 1 when the denominator is 0.
WedgingFactor(Dop, Z) ==
    LET beta == Acos(CosVal(Dop, Z))
        denom == beta + Mul(Sin(beta), Cos(beta))
    IN  IF denom # 0 THEN Div(2 * Sin(beta), denom) ELSE Scale

\* Lateral remaining resistance (passive soil), from the passive strength.
LateralRemaining(inputs) ==
    Mul(Mul(inputs.Z, inputs.rate),
        2 * inputs.Su_passive + Mul(Mul(Dec(5, 10), Sub_wt(inputs)), inputs.Z))

\* alpha * SSR * (OCR**Prem): the friction factor of a cell.
Friction(inputs, SSR, Prem) == Mul(Mul(inputs.alpha, SSR), Pow(inputs.OCR, Prem))

AxialBreakout(inputs, SSR, Prem, zeta, V) ==
    Mul(Mul(Mul(Friction(inputs, SSR, Prem), zeta), inputs.rate), V)

\* The residual with St multiplied in instead of divided out.
AxialResidual_times(St, Abrk) == Mul(St, Abrk)

\* Axial residual: the reciprocal of St, times the breakout force.
AxialResidual(St, Abrk) == Mul(Div(Scale, St), Abrk)

LateralBreakout(inputs, SSR, Prem, V, Fl_remain) ==
    Mul(Mul(Friction(inputs, SSR, Prem), inputs.rate), V) + Fl_remain

Lres_raw(Dop, Z, V) ==
    IF Dop > 0 THEN Mul(Dec(32, 100) + Mul(Dec(8, 10), Pow08(Div(Z, Dop))), V) ELSE 0

\* The safety factor with the Low and High tiers exchanged.
LateralResidual_swapped(est, raw) ==
    IF est = "P5" THEN Mul(raw, Dec(15, 10))
    ELSE IF est = "P95" THEN Div(raw, Dec(15, 10))
    ELSE raw

\* The safety factor on the lateral residual, by estimate.
LateralResidual(est, raw) ==
    IF est = "P5" THEN Div(raw, Dec(15, 10))
    ELSE IF est = "P95" THEN Mul(raw, Dec(15, 10))
    ELSE raw

Dop_mm(Dop) == Mul(Dop, Dec(1000, 1))

\* Xb with every tier capped by min.
Xb_allmin(est, Dop) ==
    IF est = "P5" THEN Min(Dec(125, 100), Mul(Dec(25, 10000), Dop_mm(Dop)))
    ELSE IF est = "P50" THEN Min(Dec(5, 1), Mul(Dec(1, 100), Dop_mm(Dop)))
    ELSE Min(Dec(50, 1), Mul(Dec(1, 100), Dop_mm(Dop)))

\* Axial breakout displacement Xb, by estimate.
Xb(est, Dop) ==
    IF est = "P5" THEN Min(Dec(125, 100), Mul(Dec(25, 10000), Dop_mm(Dop)))
    ELSE IF est = "P50" THEN Min(Dec(5, 1), Mul(Dec(1, 100), Dop_mm(Dop)))
    ELSE Max(Dec(50, 1), Mul(Dec(1, 100), Dop_mm(Dop)))

\* Axial residual displacement Xr, by estimate.
Xr(est, Dop) ==
    IF est = "P5" THEN Min(Dec(75, 10), Mul(Dec(15, 1000), Dop_mm(Dop)))
    ELSE IF est = "P50" THEN Min(Dec(30, 1), Mul(Dec(6, 100), Dop_mm(Dop)))
    ELSE Max(Dec(250, 1), Mul(Dec(5, 10), Dop_mm(Dop)))

\* Lateral breakout displacement Yb, by estimate.
Yb(est, Dop, Z) ==
    IF est = "P5" THEN Mul(Dec(4, 1000) + Mul(Dec(2, 100), Div(Z, Dop)), Dop_mm(Dop))
    ELSE IF est = "P50" THEN Mul(Dec(2, 100) + Mul(Dec(25, 100), Div(Z, Dop)), Dop_mm(Dop))
    ELSE Mul(Dec(1, 10) + Mul(Dec(7, 10), Div(Z, Dop)), Dop_mm(Dop))

\* Yr from the diameter in metres, the conversion to millimetres left out.
Yr_metres(est, Dop) ==
    IF est = "P5" THEN Mul(Dec(6, 10), Dop)
    ELSE IF est = "P50" THEN Mul(Dec(15, 10), Dop)
    ELSE Mul(Dec(28, 10), Dop)

\* Lateral residual displacement Yr, by estimate.
Yr(est, Dop) ==
    IF est = "P5" THEN Mul(Dec(6, 10), Dop_mm(Dop))
    ELSE IF est = "P50" THEN Mul(Dec(15, 10), Dop_mm(Dop))
    ELSE Mul(Dec(28, 10), Dop_mm(Dop))

\* The profile of one cell, from that cell's SSR and Prem.
Profile(inputs, surf_name, est, zeta, V, Fl_remain) ==
    LET SSR == inputs.SSR[<<surf_name, est>>]
        Prem == inputs.Prem[<<surf_name, est>>]
        Abrk == AxialBreakout(inputs, SSR, Prem, zeta, V)
    IN  [Surface |-> surf_name,
         Estimate |-> est,
         Axial |-> [BreakForce |-> Abrk,
                    BreakDisp |-> Xb(est, inputs.Dop),
                    ResForce |-> AxialResidual(inputs.St, Abrk),
                    ResDisp |-> Xr(est, inputs.Dop)],
         Lateral |-> [BreakForce |-> LateralBreakout(inputs, SSR, Prem, V, Fl_remain),
                      BreakDisp |-> Yb(est, inputs.Dop, inputs.Z),
                      ResForce |-> LateralResidual(est, Lres_raw(inputs.Dop, inputs.Z, V)),
                      ResDisp |-> Yr(est, inputs.Dop)]]

\* The surface and the estimate of the n-th pass of the nested loops
\* (for surf_name in surfaces: for est in estimates).
\* The surface of the n-th pass had the loops been nested the other way.
LoopSurface_inner(n) == surfaces[((n - 1) % 2) + 1]

LoopSurface(n) == surfaces[((n - 1) \div 3) + 1]

LoopEstimate(n) == estimates[((n - 1) % 3) + 1]

\* run_psi_analysis(inputs): the record returned, or the exception raised
\* (min() of two complex numbers, which a negative Z under a fractional
\* power produces, is a TypeError) with the geometry evaluated before it.
run_psi_analysis(inputs) ==
    LET Dop == inputs.Dop
        Z == inputs.Z
        V == EffectiveForce(Dop, inputs.tp)
        B == ContactWidth(Dop, Z)
        Abm == PenetratedArea(Dop, Z)
        Qv == BearingCapacity(inputs, Abm)
        zeta == WedgingFactor(Dop, Z)
        Fl_remain == LateralRemaining(inputs)
    IN  IF Dop > 0 /\ Z < 0
        THEN [status |-> "TypeError", B |-> B, Abm |-> Abm]
        ELSE [status |-> "ok",
              B |-> B,
              metrics |-> [Wp |-> Wp(Dop, inputs.tp), Wpf |-> Wpf(Dop, inputs.tp), V |-> V,
                           Abm |-> Abm, Qv |-> Qv, zeta |-> zeta,
                           Fl_remain |-> Fl_remain, Check_V_Qv |-> (V < Qv)],
              profiles |-> [n \in 1..6 |->
                              Profile(inputs, LoopSurface(n), LoopEstimate(n),
                                      zeta, V, Fl_remain)]]

\* The stability message the surface-laid page shows for a metrics record.
StabilityVerdict(metrics) ==
    IF metrics.V > metrics.Qv THEN "FAILURE WARNING" ELSE "STABILITY OK"

\* The x values of the trace plot_surface_graphs draws for the Axial or the
\* Lateral part of a profile.
TraceX(part) == <<0, part.BreakDisp, part.ResDisp, Mul(part.ResDisp, Dec(15, 10))>>

\* ---------------------------------- surface-laid: PSI_Undrained_Model

\* PSI_Undrained_Model(...): the object built from the same input record,
\* coefficient lists in the order [Low, Best, High].  The constructor takes
\* no passive strength.
PSI_Undrained_Model(inputs) ==
    [dop |-> inputs.Dop, tp |-> inputs.tp, z |-> inputs.Z, su |-> inputs.Su,
     ocr |-> inputs.OCR, st |-> inputs.St, alpha |-> inputs.alpha, rate |-> inputs.rate,
     sub_wt |-> inputs.gamma_bulk - Dec(1005, 100),
     ssr_conc |-> [j \in 1..3 |-> inputs.SSR[<<"Concrete", estimates[j]>>]],
     prem_conc |-> [j \in 1..3 |-> inputs.Prem[<<"Concrete", estimates[j]>>]],
     ssr_pet |-> [j \in 1..3 |-> inputs.SSR[<<"PET", estimates[j]>>]],
     prem_pet |-> [j \in 1..3 |-> inputs.Prem[<<"PET", estimates[j]>>]]]

calculate_weights(self) ==
    [Wp |-> Wp(self.dop, self.tp),
     Wpf |-> Wpf(self.dop, self.tp),
     V |-> Max(InstallationTerm(self.dop, self.tp), Wpf(self.dop, self.tp)),
     Dip |-> Dip(self.dop, self.tp)]

\* b_width: the square root is taken unguarded.
b_width(self) ==
    IF self.z < Div(self.dop, Dec(2, 1))
    THEN 2 * Sqrt(Radicand(self.dop, self.z))
    ELSE self.dop

\* Whether calculate_geometry_and_resistance raises ValueError: math.sqrt of
\* a negative radicand, or math.asin outside [-1, 1].
GeometryRaises(self) ==
    /\ self.z < Div(self.dop, Dec(2, 1))
    /\ \/ Radicand(self.dop, self.z) < 0
       \/ Abs(Div(b_width(self), self.dop)) > Scale

abm(self) ==
    LET b == b_width(self)
        term1 == Mul(Asin(Div(b, self.dop)), Div(Mul(self.dop, self.dop), Dec(4, 1)))
        term2 == Mul(Mul(b, Div(self.dop, Dec(4, 1))), Cos(Asin(Div(b, self.dop))))
    IN  IF self.z < Div(self.dop, Dec(2, 1))
        THEN term1 - term2
        ELSE Div(Mul(Pi, Mul(self.dop, self.dop)), Dec(8, 1))
             + Mul(self.dop, self.z - Div(self.dop, Dec(2, 1)))

qv(self) ==
    LET term_bearing == Min(Mul(Dec(6, 1), PowQuarter(Div(self.z, self.dop))),
                            Mul(Dec(34, 10), PowHalf(Div(10 * self.z, self.dop))))
        term_bouyancy == Div(Mul(Mul(Dec(15, 10), self.sub_wt), abm(self)),
                             Mul(self.dop, self.su))
    IN  Mul(Mul(term_bearing + term_bouyancy, self.dop), self.su)

\* zeta: 1 when beta is 0.
zeta(self) ==
    LET cos_val == Max(-Scale, Min(Scale, Scale - Div(self.z, Div(self.dop, Dec(2, 1)))))
        beta == Acos(cos_val)
    IN  IF beta = 0 THEN Scale
        ELSE Div(2 * Sin(beta), beta + Mul(Sin(beta), Cos(beta)))

\* fl_remain: from su, the only strength the object holds.
fl_remain(self) ==
    Mul(Mul(self.z, self.rate), 2 * self.su + Mul(Mul(Dec(5, 10), self.sub_wt), self.z))

calculate_geometry_and_resistance(self) ==
    [Abm |-> abm(self), Qv |-> qv(self), zeta |-> zeta(self), Fl_remain |-> fl_remain(self)]

SimEstimates == <<"Low Estimate-P5", "Best Estimate-P50", "High Estimate-P95">>

\* One row of the returned table: surface s (1 Concrete, 2 PET), estimate
\* j (1 Low, 2 Best, 3 High); every number rounded to two decimals.
SimRow(self, s, j, geo, v) ==
    LET ssr == IF s = 1 THEN self.ssr_conc[j] ELSE self.ssr_pet[j]
        prem == IF s = 1 THEN self.prem_conc[j] ELSE self.prem_pet[j]
        fric == Mul(Mul(self.alpha, ssr), Pow(self.ocr, prem))
        abrk == Mul(Mul(Mul(fric, geo.zeta), self.rate), v)
        ares == Mul(Div(Scale, self.st), abrk)
        lbrk == Mul(Mul(fric, self.rate), v) + geo.Fl_remain
        base_lres == Mul(Dec(32, 100) + Mul(Dec(8, 10), Pow08(Div(self.z, self.dop))), v)
        lres == IF j = 1 THEN Div(base_lres, Dec(15, 10))
                ELSE IF j = 3 THEN Mul(base_lres, Dec(15, 10))
                ELSE base_lres
        est == estimates[j]
    IN  [Surface |-> surfaces[s],
         Estimate |-> SimEstimates[j],
         AxialBrk |-> Round2(abrk),
         Xbrk |-> Round2(Xb(est, self.dop)),
         AxialRes |-> Round2(ares),
         Xres |-> Round2(Xr(est, self.dop)),
         LatBrk |-> Round2(lbrk),
         Ybrk |-> Round2(Yb(est, self.dop, self.z)),
         LatRes |-> Round2(lres),
         Yres |-> Round2(Yr(est, self.dop))]

\* run_simulation(): (weights, geo, rows), or the ValueError raised.
run_simulation(self) ==
    LET weights == calculate_weights(self)
        geo == calculate_geometry_and_resistance(self)
    IN  IF GeometryRaises(self)
        THEN [status |-> "ValueError"]
        ELSE [status |-> "ok",
              weights |-> weights,
              geo |-> geo,
              rows |-> [n \in 1..6 |->
                          SimRow(self, ((n - 1) \div 3) + 1, ((n - 1) % 3) + 1,
                                 geo, weights.V)]]

\* ------------------------------------------ trenched: Trenched_PSI_Backend

nc == Dec(9, 1)

\* calculate_weights with the lay factor left out of V.
TrenchedWeights_nolay(self) ==
    LET dip == self.dop - 2 * self.tp
        ring == Mul(Pi, Mul(self.dop, self.dop) - Mul(dip, dip))
        wp == Div(Mul(ring, Dec(7850, 1)), Dec(4, 1))
        wcon == Div(Mul(Mul(Pi, Mul(dip, dip)), Dec(1000, 1)), Dec(4, 1))
        wb == Div(Mul(Mul(Pi, Mul(self.dop, self.dop)), Dec(1025, 1)), Dec(4, 1))
        wpf == Div(Mul(wp + wcon - wb, g), Dec(1000, 1))
        wpins == Div(Mul(Div(Mul(ring, Dec(7850 - 1025, 1)), Dec(4, 1)), g), Dec(1000, 1))
    IN  [V |-> Max(wpins, wpf),
         Dip |-> dip,
         Ap |-> Div(Mul(Pi, Mul(self.dop, self.dop)), Dec(4, 1))]

TrenchedWeights(self) ==
    LET dip == self.dop - 2 * self.tp
        ring == Mul(Pi, Mul(self.dop, self.dop) - Mul(dip, dip))
        wp == Div(Mul(ring, Dec(7850, 1)), Dec(4, 1))
        wcon == Div(Mul(Mul(Pi, Mul(dip, dip)), Dec(1000, 1)), Dec(4, 1))
        wb == Div(Mul(Mul(Pi, Mul(self.dop, self.dop)), Dec(1025, 1)), Dec(4, 1))
        wpf == Div(Mul(wp + wcon - wb, g), Dec(1000, 1))
        wpins == Div(Mul(Div(Mul(ring, Dec(7850 - 1025, 1)), Dec(4, 1)), g), Dec(1000, 1))
    IN  [V |-> Max(Mul(wpins, Klay), wpf),
         Dip |-> dip,
         Ap |-> Div(Mul(Pi, Mul(self.dop, self.dop)), Dec(4, 1))]

fa_deep(self, soil_inputs, i) ==
    Mul(Mul(Mul(soil_inputs.alpha[i], soil_inputs.s_bnb[i]), Pi), self.dop)

fa_shallow(self, soil_inputs, i) ==
    Mul(Mul(soil_inputs.alpha[i], soil_inputs.s_bo[i]), Div(Mul(Pi, self.dop), Dec(2, 1)))
    + Mul(2 * soil_inputs.s_ba[i], self.h + Div(self.dop, Dec(2, 1)))

g_sub(soil_inputs, i) == soil_inputs.g_bulk[i] - Dec(1005, 100)

fu_local(self, soil_inputs, i) ==
    Mul(Mul(nc, soil_inputs.s_bnb[i]), self.dop)
    - Mul(g_sub(soil_inputs, i), TrenchedWeights(self).Ap)

fu_global(self, soil_inputs, i) ==
    LET term1 == Mul(Mul(g_sub(soil_inputs, i), self.h), self.dop)
        term2 == Mul(Mul(g_sub(soil_inputs, i), Mul(self.dop, self.dop)),
                     Dec(5, 10) - Div(Pi, Dec(8, 1)))
        term3 == Mul(2 * soil_inputs.s_bnb[i], self.h + Div(self.dop, Dec(2, 1)))
    IN  term1 + term2 + term3

\* The stronger mechanism taken as governing.
axial_gov_max(deep, shallow) == Max(deep, shallow)

\* The governing value of two mechanisms.
axial_gov(deep, shallow) == Min(deep, shallow)

uplift_gov(local, global) == Min(local, global)

TrenchedCategories == <<"P5 (Low)", "P50 (Best)", "P95 (High)">>

\* The record of pass i of the loop, from index i of every soil list.
TrenchedRecord(self, soil_inputs, i) ==
    [Category |-> TrenchedCategories[i],
     Axial |-> Round2(axial_gov(fa_deep(self, soil_inputs, i), fa_shallow(self, soil_inputs, i))),
     Uplift |-> Round2(uplift_gov(fu_local(self, soil_inputs, i),
                                  fu_global(self, soil_inputs, i)))]

\* Trenched_PSI_Backend(dop, tp, h): the object.
Trenched_PSI_Backend(dop, tp, h) == [dop |-> dop, tp |-> tp, h |-> h]

\* run_analysis(soil_inputs): (v, rows).
run_analysis(self, soil_inputs) ==
    [status |-> "ok",
     V |-> TrenchedWeights(self).V,
     rows |-> [i \in 1..3 |-> TrenchedRecord(self, soil_inputs, i)]]

\* ------------------------------------------------------- the state machine

VARIABLES
    analysis_mode,  \* the pipeline condition selected
    inputs,         \* the surface-laid input record
    surf,           \* what run_psi_analysis(inputs) returned or raised
    sim,            \* what PSI_Undrained_Model(inputs).run_simulation() returned or raised
    trench,         \* the trenched pipe (dop, tp, h) and its soil lists
    tres,           \* what Trenched_PSI_Backend.run_analysis returned
    verdict         \* the stability message on the surface-laid page

vars == <<analysis_mode, inputs, surf, sim, trench, tres, verdict>>

\* The embedments entered are the multiples -1 .. MaxZk of ZStep.
MaxZk == 8

ZStep == Dec(5, 100)

ZValues == {k * ZStep : k \in -1..MaxZk}

NoResult == [status |-> "none"]

SSRTable ==
    [c \in Cells |->
        IF c[1] = "Concrete"
        THEN (IF c[2] = "P5" THEN Dec(25, 100) ELSE IF c[2] = "P50" THEN Dec(35, 100)
              ELSE Dec(45, 100))
        ELSE (IF c[2] = "P5" THEN Dec(20, 100) ELSE IF c[2] = "P50" THEN Dec(30, 100)
              ELSE Dec(40, 100))]

PremTable ==
    [c \in Cells |->
        IF c[1] = "Concrete"
        THEN (IF c[2] = "P5" THEN Dec(0, 1) ELSE IF c[2] = "P50" THEN Dec(1, 1) ELSE Dec(2, 1))
        ELSE (IF c[2] = "P5" THEN Dec(2, 1) ELSE IF c[2] = "P50" THEN Dec(1, 1) ELSE Dec(0, 1))]

\* The input records entered in the surface-laid form.
SurfaceInputs ==
    [Dop : {Dec(3, 10), Dec(8, 10), Dec(6, 1)},
     tp : {Dec(-1, 100), Dec(0, 1), Dec(2, 100), Dec(5, 100)},
     Z : ZValues,
     Su : {Dec(5, 1)},
     OCR : {Dec(1, 1), Dec(2, 1)},
     St : {Dec(2, 1), Dec(3, 1)},
     alpha : {Dec(5, 10)},
     rate : {Dec(1, 1)},
     gamma_bulk : {Dec(16, 1)},
     Su_passive : {Dec(5, 1), Dec(8, 1)},
     SSR : {SSRTable},
     Prem : {PremTable}]

DefaultSurfaceInputs ==
    [Dop |-> Dec(3, 10), tp |-> Dec(2, 100), Z |-> ZStep, Su |-> Dec(5, 1), OCR |-> Dec(1, 1),
     St |-> Dec(3, 1), alpha |-> Dec(5, 10), rate |-> Dec(1, 1), gamma_bulk |-> Dec(16, 1),
     Su_passive |-> Dec(5, 1), SSR |-> SSRTable, Prem |-> PremTable]

\* The trenched pipes and soil lists entered in the trenched form.
TrenchedInputs ==
    [dop : {Dec(4, 10), Dec(8, 10)},
     tp : {Dec(-1, 100), Dec(15, 1000)},
     h : {Dec(5, 10), Dec(1, 1)},
     alpha : {<<Dec(5, 10), Dec(6, 10), Dec(8, 10)>>},
     g_bulk : {<<Dec(16, 1), Dec(17, 1), Dec(18, 1)>>},
     s_bnb : {<<a, b, c>> : a \in {Dec(2, 1), Dec(20, 1)}, b \in {Dec(3, 1), Dec(25, 1)},
                            c \in {Dec(5, 1), Dec(30, 1)}},
     s_bo : {<<Dec(3, 1), Dec(4, 1), Dec(6, 1)>>},
     s_ba : {<<Dec(25, 10), Dec(35, 10), Dec(5, 1)>>, <<Dec(5, 10), Dec(35, 10), Dec(1, 10)>>}]

DefaultTrenchedInputs ==
    [dop |-> Dec(4, 10), tp |-> Dec(15, 1000), h |-> Dec(1, 1),
     alpha |-> <<Dec(5, 10), Dec(6, 10), Dec(8, 10)>>,
     g_bulk |-> <<Dec(16, 1), Dec(17, 1), Dec(18, 1)>>,
     s_bnb |-> <<Dec(2, 1), Dec(3, 1), Dec(5, 1)>>,
     s_bo |-> <<Dec(3, 1), Dec(4, 1), Dec(6, 1)>>,
     s_ba |-> <<Dec(25, 10), Dec(35, 10), Dec(5, 1)>>]

\* One mode is selected; its form holds the inputs entered, the other form
\* its defaults; nothing has been run.
Init ==
    /\ analysis_mode \in {"Surface Laid Pipeline", "Trenched Pipeline"}
    /\ IF analysis_mode = "Surface Laid Pipeline"
       THEN inputs \in SurfaceInputs /\ trench = DefaultTrenchedInputs
       ELSE inputs = DefaultSurfaceInputs /\ trench \in TrenchedInputs
    /\ surf = NoResult
    /\ sim = NoResult
    /\ tres = NoResult
    /\ verdict = "none"

\* "Run Surface Analysis": run_psi_analysis on the inputs entered, then the
\* stability message for the metrics returned (none when the call raised).
RunSurfaceAnalysis ==
    /\ analysis_mode = "Surface Laid Pipeline"
    /\ surf = NoResult
    /\ surf' = run_psi_analysis(inputs)
    /\ verdict' = IF surf'.status = "ok" THEN StabilityVerdict(surf'.metrics) ELSE "none"
    /\ UNCHANGED <<analysis_mode, inputs, sim, trench, tres>>

\* PSI_Undrained_Model(...).run_simulation() on the same inputs.
RunSimulation ==
    /\ analysis_mode = "Surface Laid Pipeline"
    /\ sim = NoResult
    /\ sim' = run_simulation(PSI_Undrained_Model(inputs))
    /\ UNCHANGED <<analysis_mode, inputs, surf, trench, tres, verdict>>

\* "Run Trenched Analysis": Trenched_PSI_Backend(dop, tp, h).run_analysis(soil_inputs).
RunTrenchedAnalysis ==
    /\ analysis_mode = "Trenched Pipeline"
    /\ tres = NoResult
    /\ tres' = run_analysis(Trenched_PSI_Backend(trench.dop, trench.tp, trench.h), trench)
    /\ UNCHANGED <<analysis_mode, inputs, surf, sim, trench, verdict>>

Next == RunSurfaceAnalysis \/ RunSimulation \/ RunTrenchedAnalysis

Spec == Init /\ [][Next]_vars

\* ------------------------------------------------------------- the claims

\* The trenched object of the current form.
TrenchSelf == Trenched_PSI_Backend(trench.dop, trench.tp, trench.h)

\* The object PSI_Undrained_Model builds from the current inputs.
SimSelf == PSI_Undrained_Model(inputs)

\* The profile of estimate est for the surface surf_name in the returned list.
ProfileOf(surf_name, est) ==
    surf.profiles[CHOOSE n \in 1..6 :
                    surf.profiles[n].Surface = surf_name /\ surf.profiles[n].Estimate = est]

\* C1 (as stated): in every returned trenched record the Axial Resistance is
\* at most Fa_deep and at most Fa_shallow, and the Uplift Resistance is at
\* most Fu_local and at most Fu_global.
C1_GoverningBelowCandidates ==
    tres.status = "ok" =>
        \A i \in 1..3 :
            /\ tres.rows[i].Axial <= fa_deep(TrenchSelf, trench, i)
            /\ tres.rows[i].Axial <= fa_shallow(TrenchSelf, trench, i)
            /\ tres.rows[i].Uplift <= fu_local(TrenchSelf, trench, i)
            /\ tres.rows[i].Uplift <= fu_global(TrenchSelf, trench, i)

\* C1 (amended): each returned value is the smaller candidate rounded to two
\* decimals: it is one of the two rounded candidates, at most each of them,
\* and above neither unrounded candidate by more than 0.005.
C1_GoverningIsRoundedMin ==
    tres.status = "ok" =>
        \A i \in 1..3 :
            LET deep == fa_deep(TrenchSelf, trench, i)
                shallow == fa_shallow(TrenchSelf, trench, i)
                local == fu_local(TrenchSelf, trench, i)
                global == fu_global(TrenchSelf, trench, i)
                axial == tres.rows[i].Axial
                uplift == tres.rows[i].Uplift
            IN  /\ axial \in {Round2(deep), Round2(shallow)}
                /\ axial <= Round2(deep) /\ axial <= Round2(shallow)
                /\ axial - deep <= Dec(5, 1000) /\ axial - shallow <= Dec(5, 1000)
                /\ uplift \in {Round2(local), Round2(global)}
                /\ uplift <= Round2(local) /\ uplift <= Round2(global)
                /\ uplift - local <= Dec(5, 1000) /\ uplift - global <= Dec(5, 1000)

\* C1 witness: an analysis has run in which the deep mechanism governs one
\* estimate and the shallow one another, the global uplift mechanism governs
\* somewhere, and a returned value was rounded up above its governing candidate.
C1_Witness ==
    /\ tres.status = "ok"
    /\ \E i \in 1..3 : fa_deep(TrenchSelf, trench, i) < fa_shallow(TrenchSelf, trench, i)
                       /\ tres.rows[i].Axial > fa_deep(TrenchSelf, trench, i)
    /\ \E i \in 1..3 : fa_shallow(TrenchSelf, trench, i) < fa_deep(TrenchSelf, trench, i)
    /\ \E i \in 1..3 : fu_global(TrenchSelf, trench, i) < fu_local(TrenchSelf, trench, i)

\* C2 (as stated): for every valid input the wedging factor returned by
\* either surface-laid implementation satisfies 0 < zeta <= 1.
C2_ZetaInUnitInterval ==
    /\ surf.status = "ok" => (0 < surf.metrics.zeta /\ surf.metrics.zeta <= Scale)
    /\ sim.status = "ok" => (0 < sim.geo.zeta /\ sim.geo.zeta <= Scale)

\* The largest value of zeta, 4/pi, with one unit in the last place of slack.
ZetaMax == Div(Dec(4, 1), Pi) + 1

\* C2 (amended): for every valid input 0 <= zeta <= 4/pi; zeta is 1 at zero
\* embedment, above 1 at half embedment, and has fallen below 1 (to about 0)
\* at full embedment Z >= Dop.
C2_ZetaRange ==
    /\ surf.status = "ok" =>
          /\ 0 <= surf.metrics.zeta /\ surf.metrics.zeta <= ZetaMax
          /\ inputs.Z = 0 => surf.metrics.zeta = Scale
          /\ 2 * inputs.Z = inputs.Dop => surf.metrics.zeta > Scale
          /\ inputs.Z >= inputs.Dop => surf.metrics.zeta <= 1
    /\ sim.status = "ok" =>
          /\ 0 <= sim.geo.zeta /\ sim.geo.zeta <= ZetaMax
          /\ inputs.Z = 0 => sim.geo.zeta = Scale
          /\ 2 * inputs.Z = inputs.Dop => sim.geo.zeta > Scale
          /\ inputs.Z >= inputs.Dop => sim.geo.zeta <= 1

\* C2 witness: both implementations have run at half embedment and returned
\* a wedging factor above 1.
C2_Witness ==
    /\ surf.status = "ok" /\ sim.status = "ok"
    /\ 2 * inputs.Z = inputs.Dop
    /\ surf.metrics.zeta > Scale /\ sim.geo.zeta > Scale

\* The wedging factor each implementation returns for the current pipe at
\* embedment z.
ZetaAt(z) == WedgingFactor(inputs.Dop, z)

SimZetaAt(z) == zeta([SimSelf EXCEPT !.z = z])

\* C3 (as stated): zeta is 1 exactly when Z = 0, and for 0 <= Z1 < Z2 <= Dop
\* zeta(Z2) < zeta(Z1).
C3_ZetaDecreasing ==
    (surf.status = "ok" /\ inputs.Z <= inputs.Dop) =>
        /\ (surf.metrics.zeta = Scale) <=> (inputs.Z = 0)
        /\ \A z2 \in ZValues :
              (inputs.Z < z2 /\ z2 <= inputs.Dop) => ZetaAt(z2) < surf.metrics.zeta

\* C3 (amended): zeta is 1 when Z = 0; in Z, zeta does not decrease over
\* 0 <= Z <= Dop/2 (so it is at least 1 there) and does not increase over
\* Dop/2 <= Z <= Dop.
C3_ZetaRisesThenFalls ==
    /\ surf.status = "ok" =>
          /\ inputs.Z = 0 => surf.metrics.zeta = Scale
          /\ 2 * inputs.Z <= inputs.Dop => surf.metrics.zeta >= Scale
          /\ \A z2 \in ZValues :
                /\ (inputs.Z < z2 /\ 2 * z2 <= inputs.Dop) => ZetaAt(z2) >= surf.metrics.zeta
                /\ (inputs.Dop <= 2 * inputs.Z /\ inputs.Z < z2 /\ z2 <= inputs.Dop)
                     => ZetaAt(z2) <= surf.metrics.zeta
    /\ sim.status = "ok" =>
          /\ inputs.Z = 0 => sim.geo.zeta = Scale
          /\ 2 * inputs.Z <= inputs.Dop => sim.geo.zeta >= Scale
          /\ \A z2 \in ZValues :
                /\ (inputs.Z < z2 /\ 2 * z2 <= inputs.Dop) => SimZetaAt(z2) >= sim.geo.zeta
                /\ (inputs.Dop <= 2 * inputs.Z /\ inputs.Z < z2 /\ z2 <= inputs.Dop)
                     => SimZetaAt(z2) <= sim.geo.zeta

\* C3 witness: a run at a positive embedment below half the diameter returned
\* zeta above 1, a deeper embedment still within the lower half gives more,
\* and an embedment in the upper half gives less than half embedment does.
C3_Witness ==
    /\ surf.status = "ok"
    /\ 0 < inputs.Z /\ surf.metrics.zeta > Scale
    /\ \E z2 \in ZValues : inputs.Z < z2 /\ 2 * z2 = inputs.Dop /\ ZetaAt(z2) > surf.metrics.zeta
                           /\ \E z3 \in ZValues : z2 < z3 /\ z3 <= inputs.Dop
                                                  /\ ZetaAt(z3) < ZetaAt(z2)

\* The row of estimate j (1 Low, 2 Best, 3 High) for surface s (1 Concrete,
\* 2 PET) in the table run_simulation returned.
SimRowOf(s, j) ==
    sim.rows[CHOOSE n \in 1..6 :
                sim.rows[n].Surface = surfaces[s] /\ sim.rows[n].Estimate = SimEstimates[j]]

\* C4 (as stated): in both surface-laid backends and for each surface, the
\* returned Low lateral residual is the returned Best one divided by 1.5 and
\* the returned High one is the returned Best one times 1.5, exactly.
C4_ExactRatioBothBackends ==
    /\ surf.status = "ok" =>
          \A s \in 1..2 :
              /\ ProfileOf(surfaces[s], "P5").Lateral.ResForce
                   = Div(ProfileOf(surfaces[s], "P50").Lateral.ResForce, Dec(15, 10))
              /\ ProfileOf(surfaces[s], "P95").Lateral.ResForce
                   = Mul(ProfileOf(surfaces[s], "P50").Lateral.ResForce, Dec(15, 10))
    /\ sim.status = "ok" =>
          \A s \in 1..2 :
              /\ SimRowOf(s, 1).LatRes = Div(SimRowOf(s, 2).LatRes, Dec(15, 10))
              /\ SimRowOf(s, 3).LatRes = Mul(SimRowOf(s, 2).LatRes, Dec(15, 10))

\* C4 (amended): the ratio law is exact on the records run_psi_analysis
\* returns; the rows of PSI_Undrained_Model hold two-decimal roundings, and
\* there 1.5 * Low and High differ from Best and 1.5 * Best by at most 0.013.
C4_RatioExactOrRounded ==
    /\ surf.status = "ok" =>
          \A s \in 1..2 :
              /\ ProfileOf(surfaces[s], "P5").Lateral.ResForce
                   = Div(ProfileOf(surfaces[s], "P50").Lateral.ResForce, Dec(15, 10))
              /\ ProfileOf(surfaces[s], "P95").Lateral.ResForce
                   = Mul(ProfileOf(surfaces[s], "P50").Lateral.ResForce, Dec(15, 10))
    /\ sim.status = "ok" =>
          \A s \in 1..2 :
              /\ Abs(Mul(SimRowOf(s, 1).LatRes, Dec(15, 10)) - SimRowOf(s, 2).LatRes)
                   <= Dec(13, 1000)
              /\ Abs(SimRowOf(s, 3).LatRes - Mul(SimRowOf(s, 2).LatRes, Dec(15, 10)))
                   <= Dec(13, 1000)

\* C4 witness: both backends have run on an input whose lateral residual is
\* not 0, and the rounded rows of PSI_Undrained_Model break the exact ratio.
C4_Witness ==
    /\ surf.status = "ok" /\ sim.status = "ok"
    /\ ProfileOf("Concrete", "P50").Lateral.ResForce > 0
    /\ SimRowOf(1, 1).LatRes # Div(SimRowOf(1, 2).LatRes, Dec(15, 10))
    /\ SimRowOf(1, 3).LatRes # Mul(SimRowOf(1, 2).LatRes, Dec(15, 10))

\* The cells in the order the profiles are to be returned.
ExpectedCells ==
    << <<"Concrete", "P5">>, <<"Concrete", "P50">>, <<"Concrete", "P95">>,
       <<"PET", "P5">>, <<"PET", "P50">>, <<"PET", "P95">> >>

IsMinOf(x, a, b) == x <= a /\ x <= b /\ x \in {a, b}

IsMaxOf(x, a, b) == x >= a /\ x >= b /\ x \in {a, b}

\* C6: with Dop_mm = 1000 * Dop, on every returned profile the Low tier caps
\* with min (1.25 | 0.0025 Dop_mm, 7.5 | 0.015 Dop_mm), the Best tier caps
\* with min (5 | 0.01 Dop_mm, 30 | 0.06 Dop_mm) and the High tier floors with
\* max (50 | 0.01 Dop_mm, 250 | 0.5 Dop_mm); in both backends the Low and
\* Best breakout displacements never exceed 1.25 and 5 and the High one
\* never falls below 50.
C6_DisplacementBounds ==
    /\ surf.status = "ok" =>
          LET mm == Mul(inputs.Dop, Dec(1000, 1))
          IN  \A s \in 1..2 :
                LET low == ProfileOf(surfaces[s], "P5").Axial
                    best == ProfileOf(surfaces[s], "P50").Axial
                    high == ProfileOf(surfaces[s], "P95").Axial
                IN  /\ IsMinOf(low.BreakDisp, Dec(125, 100), Mul(Dec(25, 10000), mm))
                    /\ IsMinOf(low.ResDisp, Dec(75, 10), Mul(Dec(15, 1000), mm))
                    /\ IsMinOf(best.BreakDisp, Dec(5, 1), Mul(Dec(1, 100), mm))
                    /\ IsMinOf(best.ResDisp, Dec(30, 1), Mul(Dec(6, 100), mm))
                    /\ IsMaxOf(high.BreakDisp, Dec(50, 1), Mul(Dec(1, 100), mm))
                    /\ IsMaxOf(high.ResDisp, Dec(250, 1), Mul(Dec(5, 10), mm))
    /\ sim.status = "ok" =>
          \A s \in 1..2 :
              /\ SimRowOf(s, 1).Xbrk <= Dec(125, 100)
              /\ SimRowOf(s, 2).Xbrk <= Dec(5, 1)
              /\ SimRowOf(s, 3).Xbrk >= Dec(50, 1)

\* C6 witness: a run on a pipe wide enough that the Low cap binds (the
\* displacement is 1.25, below 0.0025 Dop_mm) and the High floor does not
\* (the displacement is 0.01 Dop_mm, above 50).
C6_Witness ==
    /\ surf.status = "ok"
    /\ ProfileOf("PET", "P5").Axial.BreakDisp = Dec(125, 100)
    /\ Mul(Dec(25, 10000), Mul(inputs.Dop, Dec(1000, 1))) > Dec(125, 100)
    /\ ProfileOf("PET", "P95").Axial.BreakDisp > Dec(50, 1)

\* C7: the returned V is the larger of Wpins*Klay*g/1000 (Klay 2.0, g 9.8)
\* and Wpf: it is at least each of them and equal to one, in both backends.
C7_VIsTheLarger ==
    LET inst == Div(Mul(Mul(Wpins(inputs.Dop, inputs.tp), Dec(2, 1)), Dec(98, 10)),
                    Dec(1000, 1))
    IN  /\ surf.status = "ok" => IsMaxOf(surf.metrics.V, inst, surf.metrics.Wpf)
        /\ sim.status = "ok" => IsMaxOf(sim.weights.V, inst, sim.weights.Wpf)

\* C7 witness: a run on a pipe of positive wall thickness returned V equal to
\* the installation term, which is above the flooded weight.
C7_Witness ==
    /\ surf.status = "ok"
    /\ inputs.tp > 0
    /\ surf.metrics.V = InstallationTerm(inputs.Dop, inputs.tp)
    /\ surf.metrics.V > surf.metrics.Wpf

\* C8: run_psi_analysis returns exactly 6 profiles in the order Concrete-P5,
\* Concrete-P50, Concrete-P95, PET-P5, PET-P50, PET-P95, each computed from
\* the SSR and Prem of its own cell; run_analysis returns exactly 3 records
\* in the order P5, P50, P95, record i from index i of every soil list.
C8_OrderedAndComplete ==
    /\ surf.status = "ok" =>
          /\ Len(surf.profiles) = 6
          /\ \A n \in 1..6 :
                /\ <<surf.profiles[n].Surface, surf.profiles[n].Estimate>> = ExpectedCells[n]
                /\ surf.profiles[n]
                     = Profile(inputs, ExpectedCells[n][1], ExpectedCells[n][2],
                               surf.metrics.zeta, surf.metrics.V, surf.metrics.Fl_remain)
    /\ tres.status = "ok" =>
          /\ Len(tres.rows) = 3
          /\ \A i \in 1..3 :
                /\ tres.rows[i].Category = <<"P5 (Low)", "P50 (Best)", "P95 (High)">>[i]
                /\ tres.rows[i].Axial
                     = Round2(Min(fa_deep(TrenchSelf, trench, i),
                                  fa_shallow(TrenchSelf, trench, i)))
                /\ tres.rows[i].Uplift
                     = Round2(Min(fu_local(TrenchSelf, trench, i),
                                  fu_global(TrenchSelf, trench, i)))

\* C8 witness: a run returned six profiles whose breakout forces all differ,
\* so that a profile computed from another cell's coefficients would show.
C8_Witness ==
    /\ surf.status = "ok"
    /\ \A m, n \in 1..6 :
          m # n => surf.profiles[m].Axial.BreakForce # surf.profiles[n].Axial.BreakForce

\* C9: both surface-laid implementations compute
\* Fl_remain = Z*rate*(2*Su_passive + 0.5*Sub_wt*Z), Sub_wt = gamma_bulk - 10.05,
\* and so return the same Fl_remain and (to the two decimals of the rows)
\* the same lateral breakout force.
C9_SamePassiveResistance ==
    (surf.status = "ok" /\ sim.status = "ok") =>
        LET passive == Mul(Mul(inputs.Z, inputs.rate),
                           2 * inputs.Su_passive
                           + Mul(Mul(Dec(5, 10), inputs.gamma_bulk - Dec(1005, 100)), inputs.Z))
        IN  /\ surf.metrics.Fl_remain = passive
            /\ sim.geo.Fl_remain = passive
            /\ \A n \in 1..6 :
                  sim.rows[n].LatBrk = Round2(surf.profiles[n].Lateral.BreakForce)

\* C10: in the partial-embedment branch (Z < Dop/2), whenever the radicand
\* Dop*Z - Z^2 is <= 0 every surface-laid implementation evaluates B = 0 and
\* Abm = 0 without raising, and the argument of the inverse cosine lies in
\* [-1, 1].
C10_GuardsInEveryImplementation ==
    LET guarded == /\ inputs.Z < Div(inputs.Dop, Dec(2, 1))
                   /\ Radicand(inputs.Dop, inputs.Z) <= 0
    IN  /\ (surf.status # "none" /\ guarded) =>
              /\ surf.B = 0
              /\ (IF surf.status = "ok" THEN surf.metrics.Abm ELSE surf.Abm) = 0
        /\ (sim.status # "none" /\ guarded) =>
              /\ sim.status # "ValueError"
              /\ sim.geo.Abm = 0
        /\ surf.status # "none" =>
              (-Scale <= CosVal(inputs.Dop, inputs.Z) /\ CosVal(inputs.Dop, inputs.Z) <= Scale)

\* C11: the stability message shown agrees with the Check_V_Qv boolean of
\* the metrics: "STABILITY OK" is shown if and only if Check_V_Qv = (V < Qv)
\* is true, and the failure warning otherwise, V = Qv included.
C11_VerdictAgreesWithCheck ==
    surf.status = "ok" =>
        /\ surf.metrics.Check_V_Qv = (surf.metrics.V < surf.metrics.Qv)
        /\ (verdict = "STABILITY OK") <=> surf.metrics.Check_V_Qv
        /\ (verdict = "FAILURE WARNING") <=> ~surf.metrics.Check_V_Qv

\* A pipe of valid geometry: Dop > 0 and 0 < tp < Dop/2, so 0 < Dip < Dop.
ValidGeometry(Dop, tp) == Dop > 0 /\ 0 < tp /\ 2 * tp < Dop

\* pi/4 * g/1000 * (6825 Dop^2 - 6800 Dip^2), the closed form of the
\* installation term less the flooded weight.
WeightMargin(Dop, tp) ==
    Mul(Div(Pi, Dec(4, 1)),
        Mul(Dec(66885, 1000), Mul(Dop, Dop))
        - Mul(Dec(6664, 100), Mul(Dip(Dop, tp), Dip(Dop, tp))))

\* C12: for every valid geometry the flooded weight never governs the max:
\* Wpins*Klay*g/1000 > Wpf strictly, the difference being
\* pi/4 * g/1000 * (6825 Dop^2 - 6800 Dip^2) > 0 (to within the rounding of
\* the arithmetic, 0.02), so V equals the installation term and V > 0, in
\* the surface-laid backends and in the trenched one.
C12_FloodedWeightNeverGoverns ==
    /\ (surf.status = "ok" /\ ValidGeometry(inputs.Dop, inputs.tp)) =>
          LET inst == Div(Mul(Mul(Wpins(inputs.Dop, inputs.tp), Dec(2, 1)), Dec(98, 10)),
                          Dec(1000, 1))
          IN  /\ inst > surf.metrics.Wpf
              /\ surf.metrics.V = inst
              /\ surf.metrics.V > 0
              /\ WeightMargin(inputs.Dop, inputs.tp) > 0
              /\ Abs(inst - surf.metrics.Wpf - WeightMargin(inputs.Dop, inputs.tp))
                   <= Dec(2, 100)
    /\ (sim.status = "ok" /\ ValidGeometry(inputs.Dop, inputs.tp)) =>
          /\ sim.weights.V > sim.weights.Wpf
          /\ sim.weights.V > 0
    /\ (tres.status = "ok" /\ ValidGeometry(trench.dop, trench.tp)) =>
          /\ tres.V > Wpf(trench.dop, trench.tp)
          /\ tres.V > 0
          /\ Abs(tres.V - Wpf(trench.dop, trench.tp) - WeightMargin(trench.dop, trench.tp))
               <= Dec(2, 100)

\* C12 witness: a run on a valid pipe whose flooded weight is positive, so
\* that both terms of the max are in play, returned the installation term.
C12_Witness ==
    /\ surf.status = "ok"
    /\ ValidGeometry(inputs.Dop, inputs.tp)
    /\ surf.metrics.Wpf > 0
    /\ surf.metrics.V = InstallationTerm(inputs.Dop, inputs.tp)
    /\ surf.metrics.V > surf.metrics.Wpf

\* C13: for the same Dop and tp the trenched V = max(Wpins_t * Klay, Wpf),
\* Wpins_t carrying the g/1000 scaling, is the same value as the
\* surface-laid V = max(Wpins * Klay * g / 1000, Wpf): the two differ by no
\* more than the rounding of one operation (one unit in the last place
\* kept), and not at all when Wpf governs.
C13_TrenchedVIsSurfaceV ==
    /\ tres.status = "ok" =>
          LET v_surface == EffectiveForce(trench.dop, trench.tp)
          IN  /\ Abs(tres.V - v_surface) <= 1
              /\ v_surface = Wpf(trench.dop, trench.tp) => tres.V = v_surface
    /\ surf.status = "ok" =>
          LET v_trenched ==
                  TrenchedWeights(Trenched_PSI_Backend(inputs.Dop, inputs.tp, trench.h)).V
          IN  /\ Abs(surf.metrics.V - v_trenched) <= 1
              /\ surf.metrics.V = surf.metrics.Wpf => v_trenched = surf.metrics.V

\* C13 witness: a trenched run on a pipe of positive wall thickness returned
\* a positive V, the installation term, which the surface-laid formula gives
\* for the same Dop and tp.
C13_Witness ==
    /\ tres.status = "ok"
    /\ trench.tp > 0
    /\ tres.V > 0
    /\ tres.V > Wpf(trench.dop, trench.tp)
    /\ Abs(tres.V - InstallationTerm(trench.dop, trench.tp)) <= 1

\* The sequence of numbers does not decrease.
NonDecreasing(xs) == \A i \in 1..(Len(xs) - 1) : xs[i] <= xs[i + 1]

\* C14: for Dop > 0 and 0 <= Z <= Dop every returned profile moves forward:
\* 0 <= Axial.BreakDisp <= Axial.ResDisp and
\* 0 <= Lateral.BreakDisp <= Lateral.ResDisp, so the x values 0, BreakDisp,
\* ResDisp, 1.5 * ResDisp of the plotted traces do not decrease; and the
\* axial breakout displacement does not decrease across P5, P50, P95.
C14_ForwardMovingCurves ==
    (surf.status = "ok" /\ inputs.Dop > 0 /\ 0 <= inputs.Z /\ inputs.Z <= inputs.Dop) =>
        /\ \A n \in 1..6 :
              /\ 0 <= surf.profiles[n].Axial.BreakDisp
              /\ surf.profiles[n].Axial.BreakDisp <= surf.profiles[n].Axial.ResDisp
              /\ 0 <= surf.profiles[n].Lateral.BreakDisp
              /\ surf.profiles[n].Lateral.BreakDisp <= surf.profiles[n].Lateral.ResDisp
              /\ NonDecreasing(TraceX(surf.profiles[n].Axial))
              /\ NonDecreasing(TraceX(surf.profiles[n].Lateral))
        /\ \A s \in 1..2 :
              /\ ProfileOf(surfaces[s], "P5").Axial.BreakDisp
                   <= ProfileOf(surfaces[s], "P50").Axial.BreakDisp
              /\ ProfileOf(surfaces[s], "P50").Axial.BreakDisp
                   <= ProfileOf(surfaces[s], "P95").Axial.BreakDisp

\* C14 witness: a run at full embedment Z = Dop, where the lateral breakout
\* displacement is largest within the range, returned a High profile whose
\* lateral breakout displacement is 0.8 Dop_mm, below its residual one.
C14_Witness ==
    /\ surf.status = "ok"
    /\ inputs.Dop > 0
    /\ inputs.Z = inputs.Dop
    /\ ProfileOf("Concrete", "P95").Lateral.BreakDisp
         = Mul(Dec(8, 10), Mul(inputs.Dop, Dec(1000, 1)))
    /\ ProfileOf("Concrete", "P95").Lateral.BreakDisp
         < ProfileOf("Concrete", "P95").Lateral.ResDisp

====
